---- MODULE Spec2Model ----
(***************************************************************************)
(* Model of the geosite lookup tool (package main): normalizeDomain,       *)
(* cleanHost, computeSizes, findMatchesForDomain, parseSelector, matchRule *)
(* and the per-line loop of main.                                          *)
(*                                                                         *)
(* A Go string is modelled as a sequence of one-character strings, so that *)
(* trimming, lower-casing, concatenation, splitting and byte-wise          *)
(* comparison are computed character by character as the code does.        *)
(***************************************************************************)
EXTENDS Integers, Sequences, FiniteSets, TLC

VARIABLES
    geo,         \* main: the decoded catalog (geo.GetEntry())
    baseSize,    \* main: tag -> count
    attrSize,    \* main: tag -> attr -> count
    regexCache,  \* main / matchRule: normalized regex source -> compiled form or nil
    pc,          \* position of main: "start", "loop", "done"
    line,        \* main: the raw line handled by the last loop iteration
    printed,     \* main: what the last loop iteration printed
    cacheBefore, \* instrumentation: regexCache as the last iteration or call received it
    compiles,    \* instrumentation: number of regexp.Compile calls per source
    mHost,       \* matchRule call: host argument
    mRule,       \* matchRule call: rule argument
    mRet,        \* matchRule call: returned (ok, why)
    nLine,       \* normalizeDomain call: argument
    nRet         \* normalizeDomain call: returned (host, err)

vars == <<geo, baseSize, attrSize, regexCache, pc, line, printed, cacheBefore,
          compiles, mHost, mRule, mRet, nLine, nRet>>

----------------------------------------------------------------------------
(* Bounds of the model *)

MaxLineLen == 5
MaxHostLen == 3
MaxValLen == 2
MaxTotalRules == 2
MaxScanLen == 2
MaxCompiles == 2

----------------------------------------------------------------------------
(* Strings *)

\* Byte value of the characters the model uses (Go compares strings byte-wise).
Ord(c) ==
    CASE c = "\t" -> 9
      [] c = " " -> 32
      [] c = "#" -> 35
      [] c = "$" -> 36
      [] c = "(" -> 40
      [] c = "." -> 46
      [] c = "/" -> 47
      [] c = "1" -> 49
      [] c = ":" -> 58
      [] c = "?" -> 63
      [] c = "@" -> 64
      [] c = "A" -> 65
      [] c = "B" -> 66
      [] c = "X" -> 88
      [] c = "^" -> 94
      [] c = "a" -> 97
      [] c = "b" -> 98
      [] c = "c" -> 99
      [] c = "e" -> 101
      [] c = "g" -> 103
      [] c = "h" -> 104
      [] c = "i" -> 105
      [] c = "o" -> 111
      [] c = "p" -> 112
      [] c = "s" -> 115
      [] c = "t" -> 116
      [] c = "x" -> 120

\* All sequences over alphabet A of length lo..hi.
Strings(A, lo, hi) == UNION {[1..n -> A] : n \in lo..hi}

\* unicode.IsSpace restricted to the characters of the model
IsSpace(c) == c \in {" ", "\t"}

IsLetter(c) == c \in {"a", "b", "c", "e", "g", "h", "i", "o", "p", "s", "t", "x", "A", "B", "X"}

IsDigit(c) == c \in {"1"}

\* unicode.ToLower of one character
LowerChar(c) ==
    CASE c = "A" -> "a"
      [] c = "B" -> "b"
      [] c = "X" -> "x"
      [] OTHER -> c

\* strings.ToLower
ToLower(s) == [i \in 1..Len(s) |-> LowerChar(s[i])]

\* s[from:] and s[:to] with 1-based inclusive positions
Drop(s, n) == SubSeq(s, n + 1, Len(s))
Take(s, n) == SubSeq(s, 1, n)

\* strings.TrimSpace
TrimSpace(s) ==
    LET keep == {i \in 1..Len(s) : ~IsSpace(s[i])}
    IN  IF keep = {} THEN <<>>
        ELSE LET lo == CHOOSE i \in keep : \A j \in keep : i <= j
                 hi == CHOOSE i \in keep : \A j \in keep : i >= j
             IN  SubSeq(s, lo, hi)

\* strings.HasPrefix / strings.HasSuffix
HasPrefix(s, p) == Len(p) <= Len(s) /\ Take(s, Len(p)) = p
HasSuffix(s, p) == Len(p) <= Len(s) /\ Drop(s, Len(s) - Len(p)) = p

\* strings.TrimSuffix / strings.TrimPrefix: removes one occurrence
TrimSuffix(s, p) == IF HasSuffix(s, p) THEN Take(s, Len(s) - Len(p)) ELSE s
TrimPrefix(s, p) == IF HasPrefix(s, p) THEN Drop(s, Len(p)) ELSE s

\* strings.Index: 1-based position of the first occurrence of p in s, 0 if none
Index(s, p) ==
    LET at == {i \in 1..(Len(s) - Len(p) + 1) : SubSeq(s, i, i + Len(p) - 1) = p}
    IN  IF at = {} THEN 0 ELSE CHOOSE i \in at : \A j \in at : i <= j

\* strings.LastIndex
LastIndex(s, p) ==
    LET at == {i \in 1..(Len(s) - Len(p) + 1) : SubSeq(s, i, i + Len(p) - 1) = p}
    IN  IF at = {} THEN 0 ELSE CHOOSE i \in at : \A j \in at : i >= j

\* strings.Contains
Contains(s, p) == Index(s, p) # 0

\* strings.ContainsAny
ContainsAny(s, chars) == \E i \in 1..Len(s) : s[i] \in chars

RECURSIVE StrLessFrom(_, _, _)
\* s < t, given that s and t agree before position i
StrLessFrom(s, t, i) ==
    IF i > Len(t) THEN FALSE
    ELSE IF i > Len(s) THEN TRUE
    ELSE IF s[i] # t[i] THEN Ord(s[i]) < Ord(t[i])
    ELSE StrLessFrom(s, t, i + 1)

\* Go's s < t on strings: byte-wise lexicographic order
StrLess(s, t) == StrLessFrom(s, t, 1)

\* m[k] of a Go map: the zero value when the key is absent
MapGet(m, k, zero) == IF k \in DOMAIN m THEN m[k] ELSE zero

\* m[k] = v of a Go map
MapPut(m, k, v) == [x \in (DOMAIN m) \cup {k} |-> IF x = k THEN v ELSE m[x]]

EmptyMap == [x \in {} |-> 0]

----------------------------------------------------------------------------
(* regexp: the fragment of RE2 syntax the model's patterns use.            *)
(* A pattern is a sequence of atoms: "^" (start of text), "$" (end of      *)
(* text), "." (any character but newline), any other character except "("  *)
(* a literal.  "(" opens a group that the model's patterns never close, so *)
(* regexp.Compile reports "missing closing )".                             *)

\* The nil *regexp.Regexp
NilRegexp == [nil |-> TRUE, prog |-> <<>>]

\* regexp.Compile
RegexpCompile(src) ==
    IF Contains(src, <<"(">>)
    THEN [err |-> TRUE, re |-> NilRegexp]
    ELSE [err |-> FALSE, re |-> [nil |-> FALSE, prog |-> src]]

RECURSIVE MatchFrom(_, _, _, _)
\* prog[k..] matches s starting after its first p characters
MatchFrom(prog, k, s, p) ==
    IF k > Len(prog) THEN TRUE
    ELSE CASE prog[k] = "^" -> p = 0 /\ MatchFrom(prog, k + 1, s, p)
           [] prog[k] = "$" -> p = Len(s) /\ MatchFrom(prog, k + 1, s, p)
           [] prog[k] = "." -> p < Len(s) /\ MatchFrom(prog, k + 1, s, p + 1)
           [] OTHER -> /\ p < Len(s)
                       /\ s[p + 1] = prog[k]
                       /\ MatchFrom(prog, k + 1, s, p + 1)

\* (*Regexp).MatchString: unanchored search
MatchString(re, s) == \E p \in 0..Len(s) : MatchFrom(re.prog, 1, s, p)

----------------------------------------------------------------------------
(* matchRule *)

\* A rule is [type |-> int32 code, value |-> string, attribute |-> sequence of keys].
\* The result carries the returned pair (ok, why), the cache as the call leaves
\* it, and whether the call invoked regexp.Compile.

\* val := strings.ToLower(strings.TrimSuffix(strings.TrimSpace(d.GetValue()), "."))
RuleVal(d) == ToLower(TrimSuffix(TrimSpace(d.value), <<".">>))

\* Variants of matchRule with one fault each (bug names the fault):
\*   "suffix"   the domain case forgets the "." before the value
\*   "dropre"   a compiled pattern is used for the call but nil is cached
\*   "nofail"   a failed compile is not cached
\*   "noname"   the default case returns no strategy name
matchRuleVariant(host, d, cache, bug) ==
    LET val == RuleVal(d)
        ret(ok, why) == [ok |-> ok, why |-> why, cache |-> cache, compiled |-> FALSE]
    IN  IF val = <<>> THEN ret(FALSE, "")
        ELSE CASE d.type = 0 -> ret(Contains(host, val), "plain")
               [] d.type = 2 ->
                    IF bug = "suffix"
                    THEN ret(host = val \/ HasSuffix(host, val), "domain")
                    ELSE ret(host = val \/ HasSuffix(host, <<".">> \o val), "domain")
               [] d.type = 3 -> ret(host = val, "full")
               [] d.type = 1 ->
                    IF val \in DOMAIN cache
                    THEN ret(~cache[val].nil /\ MatchString(cache[val], host), "regex")
                    ELSE LET c == RegexpCompile(val)
                         IN  IF c.err
                             THEN [ok |-> FALSE, why |-> "regex",
                                   cache |-> IF bug = "nofail" THEN cache
                                             ELSE MapPut(cache, val, NilRegexp),
                                   compiled |-> TRUE]
                             ELSE [ok |-> MatchString(c.re, host), why |-> "regex",
                                   cache |-> MapPut(cache, val,
                                                    IF bug = "dropre" THEN NilRegexp
                                                    ELSE c.re),
                                   compiled |-> TRUE]
               [] OTHER -> ret(host = val, IF bug = "noname" THEN "" ELSE "unknown")

matchRuleSuffixNoDot(host, d, cache) == matchRuleVariant(host, d, cache, "suffix")
matchRuleCachesNil(host, d, cache) == matchRuleVariant(host, d, cache, "dropre")
matchRuleForgetsFailure(host, d, cache) == matchRuleVariant(host, d, cache, "nofail")
matchRuleUnnamedDefault(host, d, cache) == matchRuleVariant(host, d, cache, "noname")

matchRule(host, d, cache) ==
    LET val == RuleVal(d)
        ret(ok, why) == [ok |-> ok, why |-> why, cache |-> cache, compiled |-> FALSE]
    IN  IF val = <<>> THEN ret(FALSE, "")
        ELSE CASE d.type = 0 -> ret(Contains(host, val), "plain")
               [] d.type = 2 -> ret(host = val \/ HasSuffix(host, <<".">> \o val), "domain")
               [] d.type = 3 -> ret(host = val, "full")
               [] d.type = 1 ->
                    IF val \in DOMAIN cache
                    THEN ret(~cache[val].nil /\ MatchString(cache[val], host), "regex")
                    ELSE LET c == RegexpCompile(val)
                         IN  IF c.err
                             THEN [ok |-> FALSE, why |-> "regex",
                                   cache |-> MapPut(cache, val, NilRegexp),
                                   compiled |-> TRUE]
                             ELSE [ok |-> MatchString(c.re, host), why |-> "regex",
                                   cache |-> MapPut(cache, val, c.re),
                                   compiled |-> TRUE]
               [] OTHER -> ret(host = val, "unknown")

----------------------------------------------------------------------------
(* net.SplitHostPort and url.Parse, for inputs without "[", "]", "%", "*"   *)
(* (no IPv6 literal, no percent-escape, not the URL "*"); only the host    *)
(* and the error of url.Parse are computed, the two results the caller     *)
(* reads.                                                                  *)

\* net.SplitHostPort
SplitHostPort(hostport) ==
    LET i == LastIndex(hostport, <<":">>)
    IN  IF i = 0 THEN [err |-> TRUE, host |-> <<>>]                 \* missing port
        ELSE IF Contains(Take(hostport, i - 1), <<":">>)
             THEN [err |-> TRUE, host |-> <<>>]                     \* too many colons
             ELSE [err |-> FALSE, host |-> Take(hostport, i - 1)]

\* strings.Cut(s, sep): the part before the first sep (all of s if none)
CutBefore(s, sep) == IF Index(s, sep) = 0 THEN s ELSE Take(s, Index(s, sep) - 1)

\* net/url getScheme
getScheme(rawURL) ==
    LET stop == {i \in 1..Len(rawURL) :
                    \/ ~(IsLetter(rawURL[i]) \/ IsDigit(rawURL[i]) \/ rawURL[i] = ".")
                    \/ (i = 1 /\ ~IsLetter(rawURL[i]))}
    IN  IF stop = {} THEN [err |-> FALSE, scheme |-> <<>>, rest |-> rawURL]
        ELSE LET i == CHOOSE x \in stop : \A y \in stop : x <= y
             IN  IF rawURL[i] = ":"
                 THEN IF i = 1
                      THEN [err |-> TRUE, scheme |-> <<>>, rest |-> <<>>]
                      ELSE [err |-> FALSE, scheme |-> Take(rawURL, i - 1),
                            rest |-> Drop(rawURL, i)]
                 ELSE [err |-> FALSE, scheme |-> <<>>, rest |-> rawURL]

\* net/url validOptionalPort
validOptionalPort(port) ==
    \/ port = <<>>
    \/ port[1] = ":" /\ \A i \in 2..Len(port) : IsDigit(port[i])

\* net/url shouldEscape(c, encodeHost)
HostCharOk(c) == IsLetter(c) \/ IsDigit(c) \/ c \in {"$", "(", ":", "."}

\* net/url parseHost
parseHost(host) ==
    LET i == LastIndex(host, <<":">>)
    IN  IF i # 0 /\ ~validOptionalPort(Drop(host, i - 1))
        THEN [err |-> TRUE, host |-> <<>>]
        ELSE IF \E j \in 1..Len(host) : ~HostCharOk(host[j])
             THEN [err |-> TRUE, host |-> <<>>]
             ELSE [err |-> FALSE, host |-> host]

\* net/url validUserinfo
UserinfoCharOk(c) == IsLetter(c) \/ IsDigit(c) \/ c \in {"$", "(", ":", ".", "@"}

\* net/url parseAuthority: (host, err)
parseAuthority(authority) ==
    LET i == LastIndex(authority, <<"@">>)
        h == parseHost(Drop(authority, i))
    IN  IF h.err THEN h
        ELSE IF i # 0 /\ \E j \in 1..(i - 1) : ~UserinfoCharOk(authority[j])
             THEN [err |-> TRUE, host |-> <<>>]
             ELSE h

\* url.Parse: (u.Host, err)
urlParse(rawURL) ==
    LET u == CutBefore(rawURL, <<"#">>)
        sch == getScheme(u)
        nq == Cardinality({i \in 1..Len(sch.rest) : sch.rest[i] = "?"})
        rest == IF HasSuffix(sch.rest, <<"?">>) /\ nq = 1
                THEN Take(sch.rest, Len(sch.rest) - 1)
                ELSE CutBefore(sch.rest, <<"?">>)
        noHost == [err |-> FALSE, host |-> <<>>]
        fail == [err |-> TRUE, host |-> <<>>]
    IN  IF \E i \in 1..Len(u) : Ord(u[i]) < 32 THEN fail   \* control character
        ELSE IF sch.err THEN fail
        ELSE IF ~HasPrefix(rest, <<"/">>) /\ sch.scheme # <<>> THEN noHost   \* opaque
        ELSE IF ~HasPrefix(rest, <<"/">>) /\ Contains(CutBefore(rest, <<"/">>), <<":">>)
             THEN fail                   \* first path segment cannot contain colon
        ELSE IF (sch.scheme # <<>> \/ ~HasPrefix(rest, <<"/", "/", "/">>))
                /\ HasPrefix(rest, <<"/", "/">>)
             THEN parseAuthority(CutBefore(Drop(rest, 2), <<"/">>))
             ELSE noHost

----------------------------------------------------------------------------
(* cleanHost and normalizeDomain: (host, err), err = "" meaning nil *)

cleanHost(host0) ==
    LET host == TrimSuffix(ToLower(TrimSpace(host0)), <<".">>)
    IN  IF host = <<>> THEN [host |-> <<>>, err |-> "empty host after normalization"]
        ELSE IF Contains(host, <<" ">>) THEN [host |-> <<>>, err |-> "invalid host"]
        ELSE [host |-> host, err |-> ""]

\* host := u.Host; if h, _, err2 := net.SplitHostPort(host); err2 == nil { host = h }
StripPort(host) == IF SplitHostPort(host).err THEN host ELSE SplitHostPort(host).host

normalizeDomain(s0) ==
    LET s == TrimSpace(s0)
        sep == <<":", "/", "/">>
        u1 == urlParse(s)
        u2 == urlParse(<<"h", "t", "t", "p", ":", "/", "/">> \o s)
    IN  IF s = <<>> THEN [host |-> <<>>, err |-> "empty"]
        ELSE IF Contains(s, sep) /\ ~u1.err /\ u1.host # <<>>
             THEN cleanHost(StripPort(u1.host))
        ELSE IF ContainsAny(s, {"/", "?"}) /\ ~Contains(s, sep) /\ ~u2.err /\ u2.host # <<>>
             THEN cleanHost(StripPort(u2.host))
        ELSE IF ~SplitHostPort(s).err THEN cleanHost(SplitHostPort(s).host)
        ELSE cleanHost(s)

----------------------------------------------------------------------------
(* computeSizes *)

\* A catalog is a sequence of entries [tag |-> string, domain |-> sequence of rules].

RECURSIVE CountAttrs(_, _, _)
\* for _, a := range d.GetAttribute() { if k != "" { attr[tag][k]++ } }, from position i
CountAttrs(m, attrs, i) ==
    IF i > Len(attrs) THEN m
    ELSE CountAttrs(IF attrs[i] # <<>>
                    THEN MapPut(m, attrs[i], MapGet(m, attrs[i], 0) + 1)
                    ELSE m,
                    attrs, i + 1)

RECURSIVE CountRules(_, _, _)
\* for _, d := range domains { ... }, from position j
CountRules(m, domains, j) ==
    IF j > Len(domains) THEN m
    ELSE CountRules(CountAttrs(m, domains[j].attribute, 1), domains, j + 1)

RECURSIVE SizesFrom(_, _, _, _)
\* for _, site := range geo.GetEntry() { ... }, from position i
SizesFrom(g, i, base, attr) ==
    IF i > Len(g) THEN [base |-> base, attr |-> attr]
    ELSE LET tag == g[i].tag
             domains == g[i].domain
         IN  SizesFrom(g, i + 1,
                       MapPut(base, tag, Len(domains)),
                       MapPut(attr, tag, CountRules(MapGet(attr, tag, EmptyMap), domains, 1)))

computeSizes(g) == SizesFrom(g, 1, EmptyMap, EmptyMap)

----------------------------------------------------------------------------
(* findMatchesForDomain and parseSelector *)

Geosite == <<"g", "e", "o", "s", "i", "t", "e", ":">>

\* baseSel := "geosite:" + tag
BaseSel(tag) == Geosite \o tag

\* sel := "geosite:" + tag + "@" + k
AttrSel(tag, k) == Geosite \o tag \o <<"@">> \o k

\* RecordWhy with the fault of overwriting an entry already recorded
RecordWhyOverwrite(selectorWhy, sel, w) == MapPut(selectorWhy, sel, w)

\* if _, exists := selectorWhy[sel]; !exists { selectorWhy[sel] = why{...} }
RecordWhy(selectorWhy, sel, w) ==
    IF sel \in DOMAIN selectorWhy THEN selectorWhy ELSE MapPut(selectorWhy, sel, w)

RECURSIVE RecordAttrs(_, _, _, _, _)
\* for _, a := range rule.GetAttribute() { ... }, from position i
RecordAttrs(selectorWhy, tag, attrs, i, w) ==
    IF i > Len(attrs) THEN selectorWhy
    ELSE RecordAttrs(IF attrs[i] = <<>> THEN selectorWhy
                     ELSE RecordWhy(selectorWhy, AttrSel(tag, attrs[i]), w),
                     tag, attrs, i + 1, w)

RECURSIVE ScanRulesFirstHit(_, _, _, _, _, _)
\* ScanRules with the fault of leaving the category at its first matching rule
ScanRulesFirstHit(host, tag, domains, j, selectorWhy, cache) ==
    IF j > Len(domains) THEN [why |-> selectorWhy, cache |-> cache]
    ELSE LET r == matchRule(host, domains[j], cache)
             w == [ruleType |-> r.why, ruleVal |-> domains[j].value]
         IN  IF ~r.ok
             THEN ScanRulesFirstHit(host, tag, domains, j + 1, selectorWhy, r.cache)
             ELSE [why |-> RecordAttrs(RecordWhy(selectorWhy, BaseSel(tag), w),
                                       tag, domains[j].attribute, 1, w),
                   cache |-> r.cache]

RECURSIVE ScanRules(_, _, _, _, _, _)
\* for _, rule := range site.GetDomain() { ... }, from position j
ScanRules(host, tag, domains, j, selectorWhy, cache) ==
    IF j > Len(domains) THEN [why |-> selectorWhy, cache |-> cache]
    ELSE LET r == matchRule(host, domains[j], cache)
             w == [ruleType |-> r.why, ruleVal |-> domains[j].value]
         IN  IF ~r.ok
             THEN ScanRules(host, tag, domains, j + 1, selectorWhy, r.cache)
             ELSE ScanRules(host, tag, domains, j + 1,
                            RecordAttrs(RecordWhy(selectorWhy, BaseSel(tag), w),
                                        tag, domains[j].attribute, 1, w),
                            r.cache)

RECURSIVE ScanSites(_, _, _, _, _)
\* for _, site := range geo.GetEntry() { ... }, from position i
ScanSites(host, g, i, selectorWhy, cache) ==
    IF i > Len(g) THEN [why |-> selectorWhy, cache |-> cache]
    ELSE LET s == ScanRules(host, g[i].tag, g[i].domain, 1, selectorWhy, cache)
         IN  ScanSites(host, g, i + 1, s.why, s.cache)

\* parseSelector: strings.TrimPrefix(sel, "geosite:"), strings.SplitN(sel, "@", 2)
parseSelector(sel0) ==
    LET sel == TrimPrefix(sel0, Geosite)
        i == Index(sel, <<"@">>)
    IN  IF i = 0 THEN [tag |-> sel, attr |-> <<>>]
        ELSE [tag |-> Take(sel, i - 1), attr |-> Drop(sel, i)]

\* The Match built for one entry of selectorWhy
BuildMatch(sel, w, base, attr) ==
    LET p == parseSelector(sel)
    IN  [Selector |-> sel, Tag |-> p.tag, Attr |-> p.attr,
         GroupSize |-> IF p.attr = <<>> THEN MapGet(base, p.tag, 0)
                       ELSE MapGet(MapGet(attr, p.tag, EmptyMap), p.attr, 0),
         Why |-> w.ruleType, WhyRuleVal |-> w.ruleVal]

\* findMatchesForDomain: the returned slice has the order of a Go map iteration,
\* which is unspecified, so it is a set here; cache is the cache as the call leaves it.
findMatchesForDomain(host, g, base, attr, cache) ==
    LET s == ScanSites(host, g, 1, EmptyMap, cache)
    IN  [out |-> {BuildMatch(sel, s.why[sel], base, attr) : sel \in DOMAIN s.why},
         cache |-> s.cache]

----------------------------------------------------------------------------
(* main: ranking and the per-line loop *)

\* MatchLess with the fault of comparing the group sizes only
MatchLessSizeOnly(m1, m2) == m1.GroupSize < m2.GroupSize

\* The less function main passes to sort.Slice
MatchLess(m1, m2) ==
    IF m1.GroupSize # m2.GroupSize THEN m1.GroupSize < m2.GroupSize
    ELSE StrLess(m1.Selector, m2.Selector)

RECURSIVE SortSlice(_)
\* sort.Slice(matches, less): every arrangement of the elements in which no element
\* is less than one placed before it (sort.Slice is not stable: elements that
\* compare equal may come out in any order).
SortSlice(S) ==
    IF S = {} THEN {<<>>}
    ELSE UNION {{<<m>> \o t : t \in SortSlice(S \ {m})} :
                    m \in {x \in S : \A y \in S : ~MatchLess(y, x)}}

\* The catalogs and input lines of the model
Tags == {<<"a">>, <<"a", "@", "b">>}

RulePool == {
    [type |-> 2, value |-> <<"a">>,      attribute |-> <<<<"b">>>>],
    [type |-> 0, value |-> <<"A", ".">>, attribute |-> <<<<"b">>, <<>>>>],
    [type |-> 1, value |-> <<"^", "a">>, attribute |-> <<<<"c">>, <<"c">>>>],
    [type |-> 1, value |-> <<"(">>,      attribute |-> <<<<"c">>>>] }

Entries == {[tag |-> t, domain |-> d] : t \in Tags, d \in Strings(RulePool, 0, MaxTotalRules)}

RECURSIVE TotalRules(_)
TotalRules(g) == IF g = <<>> THEN 0 ELSE Len(Head(g).domain) + TotalRules(Tail(g))

\* Catalogs of entries with pairwise different tags and at most MaxTotalRules rules
Catalogs ==
    {g \in Strings(Entries, 1, Cardinality(Tags)) :
        /\ \A i, j \in 1..Len(g) : i # j => g[i].tag # g[j].tag
        /\ TotalRules(g) <= MaxTotalRules}

MainLines == Strings({"a", "."}, 1, MaxScanLen)

\* normalizeDomain(raw) for every line of the model
MainNormalized == [raw \in MainLines |-> normalizeDomain(raw)]

\* Values of the variables before anything was printed, called or returned
NoOutput == [kind |-> "none", host |-> <<>>, matches |-> <<>>]
NoRule == [type |-> 0, value |-> <<>>, attribute |-> <<>>]
NoRet == [ok |-> FALSE, why |-> "none"]
NoNorm == [host |-> <<>>, err |-> "none"]

Init ==
    /\ geo \in Catalogs
    /\ baseSize = EmptyMap
    /\ attrSize = EmptyMap
    /\ regexCache = EmptyMap
    /\ pc = "start"
    /\ line = <<>>
    /\ printed = NoOutput
    /\ cacheBefore = EmptyMap
    /\ compiles = EmptyMap
    /\ mHost = <<>>
    /\ mRule = NoRule
    /\ mRet = NoRet
    /\ nLine = <<>>
    /\ nRet = NoNorm

\* main, lines 38-54: the sizes are computed and the regex cache is made
Startup ==
    /\ pc = "start"
    /\ baseSize' = computeSizes(geo).base
    /\ attrSize' = computeSizes(geo).attr
    /\ regexCache' = EmptyMap
    /\ pc' = "loop"
    /\ UNCHANGED <<geo, line, printed, cacheBefore, compiles, mHost, mRule, mRet,
                   nLine, nRet>>

\* main, lines 56-88: one iteration of the loop over the input lines
ProcessLine(raw) ==
    /\ pc = "loop"
    /\ line' = raw
    /\ cacheBefore' = regexCache
    /\ LET n == MainNormalized[raw]   \* host, err := normalizeDomain(raw)
       IN  IF n.err # ""
           THEN /\ printed' = [kind |-> "error", host |-> <<>>, matches |-> <<>>]
                /\ regexCache' = regexCache
           ELSE \E r \in {findMatchesForDomain(n.host, geo, baseSize, attrSize, regexCache)} :
                    /\ regexCache' = r.cache
                    /\ IF r.out = {}
                       THEN printed' = [kind |-> "nomatch", host |-> n.host,
                                        matches |-> <<>>]
                       ELSE \E sorted \in SortSlice(r.out) :
                                printed' = [kind |-> "matches", host |-> n.host,
                                            matches |-> sorted]
    /\ UNCHANGED <<geo, baseSize, attrSize, pc, compiles, mHost, mRule, mRet, nLine, nRet>>

\* main: the input lines are exhausted
Finish ==
    /\ pc = "loop"
    /\ pc' = "done"
    /\ UNCHANGED <<geo, baseSize, attrSize, regexCache, line, printed, cacheBefore,
                   compiles, mHost, mRule, mRet, nLine, nRet>>

Next ==
    \/ Startup
    \/ \E raw \in MainLines : ProcessLine(raw)
    \/ Finish

Spec == Init /\ [][Next]_vars

----------------------------------------------------------------------------
(* matchRule as a function of its arguments: one call on an empty cache *)

\* Hosts as normalizeDomain returns them
Hosts ==
    {normalizeDomain(l).host :
        l \in {x \in Strings({"a", "x", "."}, 1, MaxHostLen) : normalizeDomain(x).err = ""}}

\* int32(d.GetType()): Plain=0, Regex=1, Domain=2, Full=3, and a code the switch does not list
TypeCodes == {0, 1, 2, 3, 4}

MatchRules ==
    {[type |-> t, value |-> v, attribute |-> <<>>] :
        t \in TypeCodes, v \in Strings({"a", "A", ".", " ", "("}, 0, MaxValLen)}

InitMatch ==
    /\ mHost \in Hosts
    /\ mRule \in MatchRules
    /\ mRet = NoRet
    /\ regexCache = EmptyMap
    /\ cacheBefore = EmptyMap
    /\ compiles = EmptyMap
    /\ pc = "ready"
    /\ geo = <<>> /\ baseSize = EmptyMap /\ attrSize = EmptyMap
    /\ line = <<>> /\ printed = NoOutput
    /\ nLine = <<>> /\ nRet = NoNorm

CallMatchRule ==
    /\ pc = "ready"
    /\ LET r == matchRule(mHost, mRule, regexCache)
       IN  /\ mRet' = [ok |-> r.ok, why |-> r.why]
           /\ regexCache' = r.cache
    /\ pc' = "returned"
    /\ UNCHANGED <<geo, baseSize, attrSize, line, printed, cacheBefore, compiles,
                   mHost, mRule, nLine, nRet>>

NextMatch == CallMatchRule

SpecMatch == InitMatch /\ [][NextMatch]_vars

----------------------------------------------------------------------------
(* A run of matchRule calls that share one cache *)

\* Hosts of the calls that share a cache
CacheHosts ==
    {normalizeDomain(l).host :
        l \in {x \in Strings({"a", "x", "."}, 1, MaxScanLen) : normalizeDomain(x).err = ""}}

CacheRules ==
    {[type |-> 1, value |-> v, attribute |-> <<>>] :
        v \in {<<"a">>, <<"A", ".">>, <<"^", "x">>, <<"(">>, <<"(", "a">>}}
    \cup {[type |-> 0, value |-> <<"(">>, attribute |-> <<>>]}

InitCache ==
    /\ regexCache = EmptyMap
    /\ cacheBefore = EmptyMap
    /\ compiles = EmptyMap
    /\ mHost = <<>>
    /\ mRule = NoRule
    /\ mRet = NoRet
    /\ pc = "ready"
    /\ geo = <<>> /\ baseSize = EmptyMap /\ attrSize = EmptyMap
    /\ line = <<>> /\ printed = NoOutput
    /\ nLine = <<>> /\ nRet = NoNorm

\* One call matchRule(host, d, regexCache); compiles counts the calls of
\* regexp.Compile per source, and a source is compiled at most MaxCompiles times.
MatchCall(host, d) ==
    LET r == matchRule(host, d, regexCache)
        n == MapGet(compiles, RuleVal(d), 0)
    IN  /\ r.compiled => n < MaxCompiles
        /\ mHost' = host
        /\ mRule' = d
        /\ mRet' = [ok |-> r.ok, why |-> r.why]
        /\ regexCache' = r.cache
        /\ cacheBefore' = regexCache
        /\ compiles' = IF r.compiled THEN MapPut(compiles, RuleVal(d), n + 1) ELSE compiles
        /\ pc' = "returned"
        /\ UNCHANGED <<geo, baseSize, attrSize, line, printed, nLine, nRet>>

NextCache == \E host \in CacheHosts, d \in CacheRules : MatchCall(host, d)

SpecCache == InitCache /\ [][NextCache]_vars

----------------------------------------------------------------------------
(* normalizeDomain as a function of its argument *)

Lines == Strings({"a", "A", ".", " ", "\t", ":", "/"}, 1, MaxLineLen)

InitNorm ==
    /\ nLine \in Lines
    /\ nRet = NoNorm
    /\ pc = "ready"
    /\ geo = <<>> /\ baseSize = EmptyMap /\ attrSize = EmptyMap
    /\ line = <<>> /\ printed = NoOutput
    /\ regexCache = EmptyMap /\ cacheBefore = EmptyMap /\ compiles = EmptyMap
    /\ mHost = <<>> /\ mRule = NoRule /\ mRet = NoRet

CallNormalize ==
    /\ pc = "ready"
    /\ nRet' = normalizeDomain(nLine)
    /\ pc' = "returned"
    /\ UNCHANGED <<geo, baseSize, attrSize, regexCache, line, printed, cacheBefore,
                   compiles, mHost, mRule, mRet, nLine>>

NextNorm == CallNormalize

SpecNorm == InitNorm /\ [][NextNorm]_vars

----------------------------------------------------------------------------
(* Properties of the scan (specification Spec) *)

\* The last iteration scanned the catalog for printed.host
Scanned == printed.kind \in {"matches", "nomatch"}

\* The selectors of the printed records
PrintedSels == {printed.matches[n].Selector : n \in DOMAIN printed.matches}

\* Positions <<i, j>> of the rules of the catalog, and the catalog's iteration order
RulePositions == UNION {{<<i, j>> : j \in 1..Len(geo[i].domain)} : i \in 1..Len(geo)}
RuleAt(p) == geo[p[1]].domain[p[2]]
TagAt(p) == geo[p[1]].tag
PosBefore(p, q) == p[1] < q[1] \/ (p[1] = q[1] /\ p[2] < q[2])

\* The rule matches the host (a regex rule: its pattern compiles and matches)
RuleHits(host, d) == matchRule(host, d, EmptyMap).ok

\* The strategy name of a match type code
StrategyName(t) ==
    CASE t = 0 -> "plain" [] t = 1 -> "regex" [] t = 2 -> "domain" [] t = 3 -> "full"
      [] OTHER -> "unknown"

\* The keys a rule carries
KeysOf(d) == {d.attribute[k] : k \in DOMAIN d.attribute}

\* The rules that match printed.host and produce the selector sel
Producers(sel) ==
    {p \in RulePositions :
        /\ RuleHits(printed.host, RuleAt(p))
        /\ \/ sel = BaseSel(TagAt(p))
           \/ \E k \in KeysOf(RuleAt(p)) : k # <<>> /\ sel = AttrSel(TagAt(p), k)}

\* C1: first hit wins. Every printed record carries the strategy name and the rule
\* value of the first rule, in catalog order, that matched the host and produced the
\* record's selector, for base and attribute selectors alike.
FirstHitWins ==
    printed.kind = "matches" =>
        \A n \in DOMAIN printed.matches :
            LET m == printed.matches[n]
                P == Producers(m.Selector)
            IN  /\ P # {}
                /\ \A p \in P :
                       (\A q \in P : ~PosBefore(q, p)) =>
                           /\ m.Why = StrategyName(RuleAt(p).type)
                           /\ m.WhyRuleVal = RuleAt(p).value

\* A base selector and an attribute selector, each produced by two matching rules
\* of different type and value
FirstHitWinsCase ==
    /\ printed.kind = "matches"
    /\ \A isAttr \in BOOLEAN :
           \E n \in DOMAIN printed.matches :
               /\ (printed.matches[n].Attr # <<>>) = isAttr
               /\ \E p, q \in Producers(printed.matches[n].Selector) :
                      /\ PosBefore(p, q)
                      /\ RuleAt(p).type # RuleAt(q).type
                      /\ RuleAt(p).value # RuleAt(q).value

\* C2: group-size invariant. Every printed base selector geosite:<tag> reports the
\* number of rules under <tag> in the catalog.
BaseGroupSize ==
    printed.kind = "matches" =>
        \A n \in DOMAIN printed.matches : \A i \in 1..Len(geo) :
            printed.matches[n].Selector = BaseSel(geo[i].tag) =>
                printed.matches[n].GroupSize = Len(geo[i].domain)

\* C3: the attribute size of a category and a (non-empty) key carried by one of its
\* rules is the number of rules of the category that carry the key at least once.
AttrSizeCountsRules ==
    pc # "start" =>
        \A i \in 1..Len(geo) :
            \A k \in UNION {KeysOf(geo[i].domain[j]) : j \in 1..Len(geo[i].domain)} :
                k # <<>> =>
                    MapGet(MapGet(attrSize, geo[i].tag, EmptyMap), k, 0)
                        = Cardinality({j \in 1..Len(geo[i].domain) :
                                          k \in KeysOf(geo[i].domain[j])})

\* C5: idempotence. Whatever the cache held when the scan began, what is printed for
\* a host is what a scan of the same host with an empty cache prints: the same
\* records in the one order the ranking allows. Two scans of one host therefore
\* print the same.
ScanIgnoresCache ==
    Scanned =>
        LET fresh == findMatchesForDomain(printed.host, geo, baseSize, attrSize, EmptyMap)
        IN  IF fresh.out = {} THEN printed.kind = "nomatch"
            ELSE /\ printed.kind = "matches"
                 /\ SortSlice(fresh.out) = {printed.matches}

\* A scan that began with a non-empty cache and matched a regex rule whose pattern
\* was already in the cache
ScanIgnoresCacheCase ==
    /\ printed.kind = "matches"
    /\ \E p \in RulePositions :
           /\ RuleAt(p).type = 1
           /\ RuleVal(RuleAt(p)) \in DOMAIN cacheBefore
           /\ RuleHits(printed.host, RuleAt(p))
           /\ BaseSel(TagAt(p)) \in PrintedSels

\* C6 as stated: geosite:<tag> is printed iff a rule of category <tag> matches,
\* geosite:<tag>@<key> iff a matching rule of category <tag> carries <key>, and there
\* is one record per selector.
SelectorsAsClaimed ==
    Scanned =>
        /\ \A i \in 1..Len(geo) :
               /\ BaseSel(geo[i].tag) \in PrintedSels
                    <=> \E j \in 1..Len(geo[i].domain) :
                            RuleHits(printed.host, geo[i].domain[j])
               /\ \A k \in UNION {KeysOf(geo[i].domain[j]) : j \in 1..Len(geo[i].domain)} :
                      AttrSel(geo[i].tag, k) \in PrintedSels
                        <=> \E j \in 1..Len(geo[i].domain) :
                                /\ RuleHits(printed.host, geo[i].domain[j])
                                /\ k \in KeysOf(geo[i].domain[j])
        /\ Len(printed.matches) = Cardinality(PrintedSels)

\* C6 amended: the printed selector strings are exactly "geosite:"+tag for every
\* category with a matching rule and "geosite:"+tag+"@"+key for every non-empty key
\* carried by a matching rule of the category, one record per distinct string; an
\* empty key yields no selector.
SelectorsExact ==
    Scanned =>
        /\ PrintedSels =
               {BaseSel(TagAt(p)) : p \in {q \in RulePositions :
                                              RuleHits(printed.host, RuleAt(q))}}
               \cup UNION {{AttrSel(TagAt(p), k) : k \in KeysOf(RuleAt(p)) \ {<<>>}} :
                              p \in {q \in RulePositions :
                                        RuleHits(printed.host, RuleAt(q))}}
        /\ Len(printed.matches) = Cardinality(PrintedSels)

\* A key printed for a category whose first matching rule does not carry it, next to
\* a matching rule that carries the empty key
SelectorsExactCase ==
    /\ printed.kind = "matches"
    /\ \E p, q \in RulePositions :
           /\ p[1] = q[1] /\ p[2] < q[2]
           /\ RuleHits(printed.host, RuleAt(p))
           /\ RuleHits(printed.host, RuleAt(q))
           /\ \E k \in KeysOf(RuleAt(q)) \ KeysOf(RuleAt(p)) :
                  k # <<>> /\ AttrSel(TagAt(q), k) \in PrintedSels
           /\ <<>> \in KeysOf(RuleAt(p))

\* m1 is printed before m2: smaller group first, then the smaller selector string
RankedBefore(m1, m2) ==
    \/ m1.GroupSize < m2.GroupSize
    \/ m1.GroupSize = m2.GroupSize /\ StrLess(m1.Selector, m2.Selector)

\* C7: the printed records are in a total order, ascending by group size and then by
\* selector string: adjacent records are in order and no two records compare equal.
RankedOutput ==
    printed.kind = "matches" =>
        /\ \A n \in 1..(Len(printed.matches) - 1) :
               RankedBefore(printed.matches[n], printed.matches[n + 1])
        /\ \A n1, n2 \in DOMAIN printed.matches :
               n1 # n2 =>
                   \/ RankedBefore(printed.matches[n1], printed.matches[n2])
                   \/ RankedBefore(printed.matches[n2], printed.matches[n1])

\* Three or more records, with a tie in group size and a difference in group size
RankedOutputCase ==
    /\ printed.kind = "matches"
    /\ Len(printed.matches) >= 3
    /\ \E n \in 1..(Len(printed.matches) - 1) :
           printed.matches[n].GroupSize = printed.matches[n + 1].GroupSize
    /\ \E n \in 1..(Len(printed.matches) - 1) :
           printed.matches[n].GroupSize < printed.matches[n + 1].GroupSize

----------------------------------------------------------------------------
(* Properties of matchRule (specifications SpecMatch and SpecCache) *)

\* host ends with "." followed by val
EndsWithDotThen(host, val) ==
    \E n \in 0..Len(host) : host = Take(host, n) \o <<".">> \o val

\* C4: a domain rule (type code 2) with a non-empty normalized value V matches the
\* host H exactly when H = V or H ends with "." followed by V.
DomainRuleAnchored ==
    (pc = "returned" /\ mRule.type = 2 /\ RuleVal(mRule) # <<>>) =>
        (mRet.ok <=> (mHost = RuleVal(mRule) \/ EndsWithDotThen(mHost, RuleVal(mRule))))

\* The value is a trailing substring of the host that no dot precedes: no match
DomainRuleAnchoredCase ==
    /\ pc = "returned"
    /\ mRule.type = 2
    /\ mRule.value = <<"A", ".">>
    /\ mHost = <<"x", "a">>
    /\ ~mRet.ok

StrategyNames == {"plain", "domain", "full", "regex", "unknown"}

\* C10 as stated: whatever the rule, the returned strategy name is one of the five.
StrategyNamed == pc = "returned" => mRet.why \in StrategyNames

\* C10 amended: for a rule whose normalized value is not empty the returned strategy
\* name is one of the five; for a rule whose normalized value is empty matchRule
\* returns no match and the empty strategy name.
StrategyNamedUnlessEmpty ==
    pc = "returned" =>
        IF RuleVal(mRule) = <<>>
        THEN mRet = [ok |-> FALSE, why |-> ""]
        ELSE mRet.why \in StrategyNames

\* A call with a type code the switch does not list and a value that is empty after
\* normalization: no match, and no strategy name
StrategyNamedUnlessEmptyCase ==
    /\ pc = "returned"
    /\ mRule.type = 4
    /\ mRule.value = <<" ", ".">>
    /\ mRet = [ok |-> FALSE, why |-> ""]

\* C9: every regex source is compiled at most once in a run; a cache entry, once
\* written, stays as it is; and a call with a regex rule whose compile failed before
\* returns no match without compiling again.
CompiledOnce ==
    /\ DOMAIN compiles = DOMAIN regexCache
    /\ \A v \in DOMAIN compiles : compiles[v] <= 1
    /\ \A v \in DOMAIN cacheBefore :
           v \in DOMAIN regexCache /\ regexCache[v] = cacheBefore[v]
    /\ (/\ pc = "returned"
        /\ mRule.type = 1
        /\ RuleVal(mRule) \in DOMAIN cacheBefore
        /\ cacheBefore[RuleVal(mRule)].nil)
           => ~mRet.ok /\ regexCache = cacheBefore

\* A call with a regex rule whose source failed to compile in an earlier call, with
\* a compiled pattern in the cache as well
CompiledOnceCase ==
    /\ pc = "returned"
    /\ mRule.type = 1
    /\ RuleVal(mRule) \in DOMAIN cacheBefore
    /\ cacheBefore[RuleVal(mRule)].nil
    /\ compiles[RuleVal(mRule)] = 1
    /\ \E v \in DOMAIN regexCache : ~regexCache[v].nil

----------------------------------------------------------------------------
(* Properties of normalizeDomain (specification SpecNorm) *)

\* C8: a host that normalizeDomain returns without error is not empty, is lowercase,
\* has no trailing dot and contains no whitespace character.
CanonicalHost ==
    (pc = "returned" /\ nRet.err = "") =>
        /\ nRet.host # <<>>
        /\ \A i \in DOMAIN nRet.host : LowerChar(nRet.host[i]) = nRet.host[i]
        /\ nRet.host[Len(nRet.host)] # "."
        /\ \A i \in DOMAIN nRet.host : ~IsSpace(nRet.host[i])

====
